---- MODULE Spec2Model ----
(***************************************************************************)
(* A model of src/sale.py, the VoIP pricing dashboard.                     *)
(*                                                                         *)
(* The script runs top to bottom once per interaction (one "pass").  The   *)
(* state that survives a pass is st.session_state (data_loaded, df, the    *)
(* four filter_* lists, the two selectbox widgets) and the st.cache_data   *)
(* entry of load_and_process_data.  Everything else is recomputed by each  *)
(* pass; the model records what the last pass computed (candidate sets,    *)
(* selections, the filtered table, the views) so that it can be examined.  *)
(*                                                                         *)
(* A Python str is a sequence of one-character strings.  A DataFrame is a  *)
(* record [isNone, columns, rows]: columns is the set of column names and  *)
(* rows the sequence of rows, each a function from column name to cell.    *)
(***************************************************************************)
EXTENDS Integers, Sequences, FiniteSets, TLC

\* Largest number of data rows of the spreadsheets the model draws.
MaxRows == 2

-----------------------------------------------------------------------------
(* Python str primitives                                                   *)

\* The characters in code-point order (str comparison, sorted()).
CodePoints ==
  << "\t", "\n", " ", "&", "(", ")", "-", ".",
     "0", "1", "2", "3", "4", "5", "6", "7", "8", "9",
     "A", "B", "C", "D", "E", "F", "G", "H", "I", "J", "K", "L", "M",
     "N", "O", "P", "Q", "R", "S", "T", "U", "V", "W", "X", "Y", "Z", "_",
     "a", "b", "c", "d", "e", "f", "g", "h", "i", "j", "k", "l", "m",
     "n", "o", "p", "q", "r", "s", "t", "u", "v", "w", "x", "y", "z" >>

UpperCase == << "A", "B", "C", "D", "E", "F", "G", "H", "I", "J", "K", "L", "M",
                "N", "O", "P", "Q", "R", "S", "T", "U", "V", "W", "X", "Y", "Z" >>

Digits == << "0", "1", "2", "3", "4", "5", "6", "7", "8", "9" >>

LowerCase == << "a", "b", "c", "d", "e", "f", "g", "h", "i", "j", "k", "l", "m",
                "n", "o", "p", "q", "r", "s", "t", "u", "v", "w", "x", "y", "z" >>

Range(s) == { s[i] : i \in DOMAIN s }

IndexOf(c, s) == CHOOSE i \in DOMAIN s : s[i] = c

\* ord(c)
Ord(c) == IndexOf(c, CodePoints)

\* regex \s
IsSpace(c) == c \in {" ", "\t", "\n"}

\* regex \w
IsWord(c) == c \in Range(UpperCase) \cup Range(LowerCase) \cup Range(Digits) \cup {"_"}

\* str.lower() on one character
LowerChar(c) == IF c \in Range(UpperCase) THEN LowerCase[IndexOf(c, UpperCase)] ELSE c

\* str.lower()
Lower(s) == [ i \in DOMAIN s |-> LowerChar(s[i]) ]

RECURSIVE LStrip(_)
LStrip(s) == IF s # << >> /\ IsSpace(Head(s)) THEN LStrip(Tail(s)) ELSE s

RECURSIVE RStrip(_)
RStrip(s) == IF s # << >> /\ IsSpace(s[Len(s)]) THEN RStrip(SubSeq(s, 1, Len(s) - 1)) ELSE s

\* str.strip()
Strip(s) == RStrip(LStrip(s))

StartsWith(s, p) == Len(p) <= Len(s) /\ SubSeq(s, 1, Len(p)) = p

\* str.replace(old, new), old non-empty: every non-overlapping occurrence,
\* scanning left to right.
RECURSIVE Replace(_, _, _)
Replace(s, old, new) ==
  IF s = << >> THEN << >>
  ELSE IF StartsWith(s, old)
       THEN new \o Replace(SubSeq(s, Len(old) + 1, Len(s)), old, new)
       ELSE << Head(s) >> \o Replace(Tail(s), old, new)

\* re.sub(r'[^\w\s]', '', s)
StripPunctuation(s) == SelectSeq(s, LAMBDA c : IsWord(c) \/ IsSpace(c))

\* re.sub(r'\s+', ' ', s)
RECURSIVE CollapseSpaces(_)
CollapseSpaces(s) ==
  IF s = << >> THEN << >>
  ELSE IF IsSpace(Head(s))
       THEN << " " >> \o CollapseSpaces(LStrip(s))
       ELSE << Head(s) >> \o CollapseSpaces(Tail(s))

\* str.split(): the whitespace-separated tokens
RECURSIVE TakeToken(_)
TakeToken(s) == IF s = << >> \/ IsSpace(Head(s)) THEN << >>
                ELSE << Head(s) >> \o TakeToken(Tail(s))

RECURSIVE Split(_)
Split(s) ==
  LET t == LStrip(s)
  IN IF t = << >> THEN << >>
     ELSE << TakeToken(t) >> \o Split(SubSeq(t, Len(TakeToken(t)) + 1, Len(t)))

\* a < b for two str
RECURSIVE StrLess(_, _)
StrLess(a, b) ==
  IF b = << >> THEN FALSE
  ELSE IF a = << >> THEN TRUE
  ELSE IF Head(a) # Head(b) THEN Ord(Head(a)) < Ord(Head(b))
  ELSE StrLess(Tail(a), Tail(b))

-----------------------------------------------------------------------------
(* Record normalisation                                                    *)

\* A missing cell (NaN); pd.isna(x) is x = NaN.
NaN == << "NaN" >>

Unknown == << "U", "n", "k", "n", "o", "w", "n" >>

\* The replacements dict of normalize_supplier_name, in insertion order.
replacements ==
  << << << "c","o","m","m","u","n","i","c","a","t","i","o","n","s" >>, << "c","o","m","m" >> >>,
     << << "t","e","l","e","c","o","m" >>, << "t","e","l" >> >>,
     << << "l","i","m","i","t","e","d" >>, << "l","t","d" >> >>,
     << << "i","n","c","o","r","p","o","r","a","t","e","d" >>, << "i","n","c" >> >>,
     << << "c","o","r","p","o","r","a","t","i","o","n" >>, << "c","o","r","p" >> >>,
     << << "&" >>, << "a","n","d" >> >> >>

\* for old, new in replacements.items(): name = name.replace(old, new)
RECURSIVE ApplyReplacements(_, _)
ApplyReplacements(name, reps) ==
  IF reps = << >> THEN name
  ELSE ApplyReplacements(Replace(name, Head(reps)[1], Head(reps)[2]), Tail(reps))

normalize_supplier_name(name) ==
  LET n1 == Strip(Lower(name))
      n2 == ApplyReplacements(n1, replacements)
      n3 == StripPunctuation(n2)
  IN Strip(CollapseSpaces(n3))

normalize_destination(name) ==
  IF name = NaN THEN Unknown
  ELSE CollapseSpaces(Strip(name))

extract_country(dest) ==
  IF dest = NaN THEN Unknown
  ELSE LET parts == Split(Replace(dest, << "-" >>, << " " >>))
       IN IF parts # << >> THEN parts[1] ELSE Unknown

-----------------------------------------------------------------------------
(* DataFrames                                                              *)

cName       == << "N","a","m","e" >>
cCustomer   == << "C","u","s","t","o","m","e","r" >>
cSupplier   == << "S","u","p","p","l","i","e","r" >>
cTrunk      == << "T","r","u","n","k" >>
cRate       == << "R","a","t","e"," ","(","i","n","t","e","r",")" >>
cMinDur     == << "M","i","n"," ","D","u","r" >>
cIncDur     == << "I","n","c"," ","D","u","r" >>
cDestination == << "D","e","s","t","i","n","a","t","i","o","n" >>
cSupplierNormalized ==
  << "S","u","p","p","l","i","e","r","_","N","o","r","m","a","l","i","z","e","d" >>
cCountry    == << "C","o","u","n","t","r","y" >>

\* The value None where a DataFrame is expected.
None == [isNone |-> TRUE, columns |-> {}, rows |-> << >>]

DataFrame(columns, rows) == [isNone |-> FALSE, columns |-> columns, rows |-> rows]

\* An emptiness test that never fires.
IsEmptyNever(d) == FALSE

\* df.empty
IsEmpty(d) == Len(d.rows) = 0

\* df.columns = df.columns.str.strip()
StripColumns(d) ==
  DataFrame({ Strip(c) : c \in d.columns },
            [ i \in DOMAIN d.rows |->
                [ c \in { Strip(k) : k \in d.columns } |->
                    d.rows[i][CHOOSE k \in d.columns : Strip(k) = c] ] ])

\* df.rename(columns={old: new}); a no-op when old is no column.
Rename(d, old, new) ==
  IF old \notin d.columns THEN d
  ELSE DataFrame((d.columns \ {old}) \cup {new},
                 [ i \in DOMAIN d.rows |->
                     [ c \in (d.columns \ {old}) \cup {new} |->
                         IF c = new THEN d.rows[i][old] ELSE d.rows[i][c] ] ])

\* df[col] = cells, a Series with one cell per row
WithColumn(d, col, cells) ==
  DataFrame(d.columns \cup {col},
            [ i \in DOMAIN d.rows |->
                [ c \in d.columns \cup {col} |->
                    IF c = col THEN cells[i] ELSE d.rows[i][c] ] ])

\* df[col].unique(), as a set
Unique(d, col) == { d.rows[i][col] : i \in DOMAIN d.rows }

\* df[df[col].isin(values)]
IsIn(d, col, values) ==
  DataFrame(d.columns, SelectSeq(d.rows, LAMBDA r : r[col] \in values))

\* Tuples of str compared component by component (groupby key order).
RECURSIVE KeyLess(_, _)
KeyLess(a, b) ==
  IF a = << >> \/ b = << >> THEN FALSE
  ELSE IF Head(a) # Head(b) THEN StrLess(Head(a), Head(b))
  ELSE KeyLess(Tail(a), Tail(b))

\* The stable sort of a sequence (sort_values), given the pairs of indices
\* << i, j >> whose elements compare less: the element at index i comes after
\* those that are less and after the equal ones before it.
StableSort(s, less) ==
  LET rank(i) == Cardinality({ j \in DOMAIN s :
                     << j, i >> \in less \/ (<< i, j >> \notin less /\ j < i) })
  IN [ k \in DOMAIN s |-> s[CHOOSE i \in DOMAIN s : rank(i) = k - 1] ]

\* A set of key tuples as the sorted sequence of the group keys of groupby.
SortedKeys(S) ==
  [ k \in 1..Cardinality(S) |->
      CHOOSE x \in S : Cardinality({ y \in S : KeyLess(y, x) }) = k - 1 ]

-----------------------------------------------------------------------------
(* The spreadsheet "International Vendors.xlsx"                            *)

SheetRow(name, supplier, trunk, rate, minDur, incDur) ==
  (cName :> name) @@ (cSupplier :> supplier) @@ (cTrunk :> trunk) @@
  (cRate :> rate) @@ (cMinDur :> minDur) @@ (cIncDur :> incDur)

\* The data rows the spreadsheets are made of.  Rates are in units of
\* 1/10000 of the currency unit.
Catalogue ==
  { SheetRow(<< "U","K","-","L" >>, << "A","&","B" >>, << "T","1" >>, 100, 1, 1),
    SheetRow(<< " ","U","K"," "," ","M" >>, << "A","&","B" >>, << "T","2" >>, 200, 6, 6),
    SheetRow(NaN, << "T","e","l","e",".","C","o","m" >>, << "T","2" >>, 300, 6, 1) }

\* The sequences over Catalogue of at most n rows.
Tables(n) == UNION { [ 1..k -> Catalogue ] : k \in 0..n }

\* A header row names, for some of the six columns, the cell heading it.
HeaderCanonical ==
  [ c \in {cName, cSupplier, cTrunk, cRate, cMinDur, cIncDur} |-> c ]

HeaderPaddedCustomer ==
  [ c \in {cName, cSupplier, cTrunk, cRate, cMinDur, cIncDur} |->
      IF c = cName THEN << " " >> \o cName
      ELSE IF c = cSupplier THEN cCustomer \o << " " >>
      ELSE c ]

HeaderWithout(col) ==
  [ c \in {cName, cSupplier, cTrunk, cRate, cMinDur, cIncDur} \ {col} |-> c ]

Sheet(header, table) ==
  [ exists  |-> TRUE,
    columns |-> { header[c] : c \in DOMAIN header },
    rows    |-> [ i \in DOMAIN table |->
                    [ h \in { header[c] : c \in DOMAIN header } |->
                        table[i][CHOOSE c \in DOMAIN header : header[c] = h] ] ] ]

\* No file of that name.
MissingFile == [ exists |-> FALSE, columns |-> {}, rows |-> << >> ]

Sources ==
  {MissingFile}
    \cup { Sheet(HeaderCanonical, t) : t \in Tables(MaxRows) }
    \cup { Sheet(h, t) : h \in { HeaderPaddedCustomer, HeaderWithout(cName),
                                  HeaderWithout(cSupplier), HeaderWithout(cTrunk),
                                  HeaderWithout(cMinDur) },
                         t \in Tables(1) }

-----------------------------------------------------------------------------
(* Loading                                                                 *)

\* load_and_process_data with an except clause that returns the frame as far
\* as it got.
load_and_process_data_partial(src) ==
  IF ~src.exists THEN None
  ELSE
    LET read    == DataFrame(src.columns, src.rows)
        renamed == Rename(StripColumns(read), cCustomer, cSupplier)
    IN IF cName \notin renamed.columns THEN renamed
       ELSE
         LET dest == WithColumn(renamed, cDestination,
                       [ i \in DOMAIN renamed.rows |->
                           normalize_destination(renamed.rows[i][cName]) ])
         IN IF cSupplier \notin dest.columns THEN dest
            ELSE
              LET norm == WithColumn(dest, cSupplierNormalized,
                            [ i \in DOMAIN dest.rows |->
                                normalize_supplier_name(dest.rows[i][cSupplier]) ])
              IN WithColumn(norm, cCountry,
                            [ i \in DOMAIN norm.rows |->
                                extract_country(norm.rows[i][cDestination]) ])

\* The body of load_and_process_data: pd.read_excel raises when there is no
\* file, df["Name"] and df["Supplier"] raise KeyError when the column is
\* absent, and the except clause turns every exception into None.
load_and_process_data(src) ==
  IF ~src.exists THEN None
  ELSE
    LET read    == DataFrame(src.columns, src.rows)
        renamed == Rename(StripColumns(read), cCustomer, cSupplier)
    IN IF cName \notin renamed.columns THEN None
       ELSE
         LET dest == WithColumn(renamed, cDestination,
                       [ i \in DOMAIN renamed.rows |->
                           normalize_destination(renamed.rows[i][cName]) ])
         IN IF cSupplier \notin dest.columns THEN None
            ELSE
              LET norm == WithColumn(dest, cSupplierNormalized,
                            [ i \in DOMAIN dest.rows |->
                                normalize_supplier_name(dest.rows[i][cSupplier]) ])
              IN WithColumn(norm, cCountry,
                            [ i \in DOMAIN norm.rows |->
                                extract_country(norm.rows[i][cDestination]) ])

-----------------------------------------------------------------------------
(* Rates and aggregation                                                   *)

RECURSIVE SumOf(_, _)
SumOf(rows, col) == IF rows = << >> THEN 0 ELSE Head(rows)[col] + SumOf(Tail(rows), col)

\* The mean of a column kept exact, as sum and count (count 0: NaN).
MeanOf(rows, col) == [sum |-> SumOf(rows, col), n |-> Len(rows)]

\* Series.min() and Series.max(): NaN for an empty column.
MinOf(rows, col) ==
  IF rows = << >> THEN NaN
  ELSE CHOOSE m \in { rows[i][col] : i \in DOMAIN rows } :
         \A i \in DOMAIN rows : m <= rows[i][col]

MaxOf(rows, col) ==
  IF rows = << >> THEN NaN
  ELSE CHOOSE m \in { rows[i][col] : i \in DOMAIN rows } :
         \A i \in DOMAIN rows : m >= rows[i][col]

\* a < b for two means of non-empty groups
MeanLess(a, b) == a.sum * b.n < b.sum * a.n

\* f"${x:.4f}": the nearest whole number of 1/10000 units, which is what the
\* four decimals show.
FormatRate(m) == [dollars_e4 |-> (2 * m.sum + m.n) \div (2 * m.n)]

\* A view that the pass did not compute.
NotComputed == [computed |-> FALSE, rows |-> << >>]

View(rows) == [computed |-> TRUE, rows |-> rows]

\* generate_main_table
generate_main_table(f) ==
  LET key(r)   == << r[cCountry], r[cDestination], r[cSupplier], r[cTrunk] >>
      keys     == SortedKeys({ key(f.rows[i]) : i \in DOMAIN f.rows })
      group(k) == SelectSeq(f.rows, LAMBDA r : key(r) = k)
      agg      == [ i \in DOMAIN keys |->
                      [ Country |-> keys[i][1], Destination |-> keys[i][2],
                        Supplier |-> keys[i][3], Trunk |-> keys[i][4],
                        Rate |-> MeanOf(group(keys[i]), cRate),
                        Min_Dur |-> MinOf(group(keys[i]), cMinDur),
                        Inc_Dur |-> MinOf(group(keys[i]), cIncDur) ] ]
      less(a, b) == \/ StrLess(a.Country, b.Country)
                    \/ /\ a.Country = b.Country
                       /\ \/ StrLess(a.Destination, b.Destination)
                          \/ /\ a.Destination = b.Destination
                             /\ MeanLess(a.Rate, b.Rate)
      sorted   == StableSort(agg, { p \in (DOMAIN agg) \X (DOMAIN agg) :
                                      less(agg[p[1]], agg[p[2]]) })
  IN View([ i \in DOMAIN sorted |->
              [ sorted[i] EXCEPT !.Rate = FormatRate(sorted[i].Rate) ] ])

\* generate_billing_table
generate_billing_table(f) ==
  LET key(r)   == << r[cSupplier], r[cTrunk] >>
      keys     == SortedKeys({ key(f.rows[i]) : i \in DOMAIN f.rows })
      group(k) == SelectSeq(f.rows, LAMBDA r : key(r) = k)
  IN View([ i \in DOMAIN keys |->
              [ Supplier |-> keys[i][1], Trunk |-> keys[i][2],
                Min_Duration |-> MinOf(group(keys[i]), cMinDur),
                Increment_Duration |-> MinOf(group(keys[i]), cIncDur),
                Avg_Rate |-> FormatRate(MeanOf(group(keys[i]), cRate)) ] ])

\* The seven columns of the rate listing.
RateColumns(r) ==
  [ Country |-> r[cCountry], Destination |-> r[cDestination],
    Supplier |-> r[cSupplier], Trunk |-> r[cTrunk],
    Rate |-> r[cRate], Min_Dur |-> r[cMinDur], Inc_Dur |-> r[cIncDur] ]

RateLess(a, b, sort_ascending) == IF sort_ascending THEN a < b ELSE b < a

\* generate_all_rates_by_destination, and the columns the Supplier branch
\* keeps of it (Rate becomes Rate_Display).
generate_all_rates_by_destination(f, sort_ascending) ==
  LET all == [ i \in DOMAIN f.rows |-> RateColumns(f.rows[i]) ]
      less(a, b) == \/ StrLess(a.Destination, b.Destination)
                    \/ /\ a.Destination = b.Destination
                       /\ \/ StrLess(a.Supplier, b.Supplier)
                          \/ /\ a.Supplier = b.Supplier
                             /\ RateLess(a.Rate, b.Rate, sort_ascending)
      sorted == StableSort(all, { p \in (DOMAIN all) \X (DOMAIN all) :
                                    less(all[p[1]], all[p[2]]) })
  IN View([ i \in DOMAIN sorted |->
              [ sorted[i] EXCEPT !.Rate = FormatRate([sum |-> sorted[i].Rate, n |-> 1]) ] ])

\* The "Destination Only" branch: sorted by destination and rate.
all_rates_destination_only(f, sort_ascending) ==
  LET all == [ i \in DOMAIN f.rows |-> RateColumns(f.rows[i]) ]
      less(a, b) == \/ StrLess(a.Destination, b.Destination)
                    \/ /\ a.Destination = b.Destination
                       /\ RateLess(a.Rate, b.Rate, sort_ascending)
      sorted == StableSort(all, { p \in (DOMAIN all) \X (DOMAIN all) :
                                    less(all[p[1]], all[p[2]]) })
  IN View([ i \in DOMAIN sorted |->
              [ sorted[i] EXCEPT !.Rate = FormatRate([sum |-> sorted[i].Rate, n |-> 1]) ] ])

\* supplier_summary with Routes = nunique of Destination instead of count.
SupplierSummaryNunique(f) ==
  LET keys     == SortedKeys({ << x >> : x \in Unique(f, cSupplier) })
      group(k) == SelectSeq(f.rows, LAMBDA r : << r[cSupplier] >> = k)
      agg      == [ i \in DOMAIN keys |->
                      [ Supplier |-> keys[i][1],
                        Routes   |-> Cardinality({ group(keys[i])[j][cDestination] :
                                                     j \in DOMAIN group(keys[i]) }),
                        Avg_Rate |-> MeanOf(group(keys[i]), cRate),
                        Min_Rate |-> MinOf(group(keys[i]), cRate),
                        Max_Rate |-> MaxOf(group(keys[i]), cRate) ] ]
      sorted   == StableSort(agg, { p \in (DOMAIN agg) \X (DOMAIN agg) :
                                      MeanLess(agg[p[1]].Avg_Rate, agg[p[2]].Avg_Rate) })
  IN View([ i \in DOMAIN sorted |->
              [ Supplier |-> sorted[i].Supplier,
                Routes   |-> sorted[i].Routes,
                Avg_Rate |-> FormatRate(sorted[i].Avg_Rate),
                Min_Rate |-> FormatRate([sum |-> sorted[i].Min_Rate, n |-> 1]),
                Max_Rate |-> FormatRate([sum |-> sorted[i].Max_Rate, n |-> 1]) ] ])

\* supplier_summary: groupby("Supplier"), Routes = count of Destination
\* (never null after loading), sorted by the mean rate before it is formatted.
SupplierSummary(f) ==
  LET keys     == SortedKeys({ << x >> : x \in Unique(f, cSupplier) })
      group(k) == SelectSeq(f.rows, LAMBDA r : << r[cSupplier] >> = k)
      agg      == [ i \in DOMAIN keys |->
                      [ Supplier |-> keys[i][1],
                        Routes   |-> Len(SelectSeq(group(keys[i]),
                                           LAMBDA r : r[cDestination] # NaN)),
                        Avg_Rate |-> MeanOf(group(keys[i]), cRate),
                        Min_Rate |-> MinOf(group(keys[i]), cRate),
                        Max_Rate |-> MaxOf(group(keys[i]), cRate) ] ]
      sorted   == StableSort(agg, { p \in (DOMAIN agg) \X (DOMAIN agg) :
                                      MeanLess(agg[p[1]].Avg_Rate, agg[p[2]].Avg_Rate) })
  IN View([ i \in DOMAIN sorted |->
              [ Supplier |-> sorted[i].Supplier,
                Routes   |-> sorted[i].Routes,
                Avg_Rate |-> FormatRate(sorted[i].Avg_Rate),
                Min_Rate |-> FormatRate([sum |-> sorted[i].Min_Rate, n |-> 1]),
                Max_Rate |-> FormatRate([sum |-> sorted[i].Max_Rate, n |-> 1]) ] ])

-----------------------------------------------------------------------------
(* Filtering                                                               *)

\* Destination options that ignore the selected countries.
AvailableDestinationsAny(d, countries) == Unique(d, cDestination)

\* The options of the Destination multiselect.
AvailableDestinations(d, countries) ==
  IF countries = {} THEN Unique(d, cDestination)
  ELSE Unique(IsIn(d, cCountry, countries), cDestination)

\* temp_df narrowed by country only.
SupplierFrameCountryOnly(d, countries, destinations) ==
  IF countries # {} THEN IsIn(d, cCountry, countries) ELSE d

\* temp_df once the Supplier column has narrowed it by country and destination.
SupplierFrame(d, countries, destinations) ==
  LET byCountry == IF countries # {} THEN IsIn(d, cCountry, countries) ELSE d
  IN IF destinations # {} THEN IsIn(byCountry, cDestination, destinations) ELSE byCountry

\* temp_df once the Trunk column has narrowed it by supplier.
TrunkFrame(temp_df, suppliers) ==
  IF suppliers # {} THEN IsIn(temp_df, cSupplier, suppliers) ELSE temp_df

\* The stored value passed as the default unfiltered.
DefaultUnfiltered(stored, available) == stored

\* [x for x in st.session_state.filter_* if x in available]
DefaultIn(stored, available) == { x \in stored : x \in available }

\* filter_dataframe without its trunk step.
filter_dataframe_no_trunk(df_input, countries, destinations, suppliers, trunks) ==
  LET f1 == IF countries # {} THEN IsIn(df_input, cCountry, countries) ELSE df_input
      f2 == IF destinations # {} THEN IsIn(f1, cDestination, destinations) ELSE f1
  IN IF suppliers # {} THEN IsIn(f2, cSupplier, suppliers) ELSE f2

filter_dataframe(df_input, countries, destinations, suppliers, trunks) ==
  LET f1 == IF countries # {} THEN IsIn(df_input, cCountry, countries) ELSE df_input
      f2 == IF destinations # {} THEN IsIn(f1, cDestination, destinations) ELSE f1
      f3 == IF suppliers # {} THEN IsIn(f2, cSupplier, suppliers) ELSE f2
  IN IF trunks # {} THEN IsIn(f3, cTrunk, trunks) ELSE f3

-----------------------------------------------------------------------------
(* State                                                                   *)

VARIABLES
  source,                \* the spreadsheet on disk
  cache,                 \* the st.cache_data entry of load_and_process_data
  data_loaded,           \* st.session_state.data_loaded
  df,                    \* st.session_state.df
  filter_countries,      \* st.session_state.filter_countries
  filter_destinations,   \* st.session_state.filter_destinations
  filter_suppliers,      \* st.session_state.filter_suppliers
  filter_trunks,         \* st.session_state.filter_trunks
  rate_sort_order,       \* the selectbox keyed "rate_sort_order"
  group_view,            \* the selectbox keyed "group_view"
  status,                \* how the last pass ended
  trigger,               \* what started the last pass
  loader_invoked,        \* the last pass called load_and_process_data()
  widgets,               \* the widgets the last pass put on the page
  dropped,               \* the filters from whose stored value the last pass
                         \* left out values that are no longer candidates
  reset_cleared,         \* the reset of this interaction cleared a selection
  kpi,                   \* the KPI cards of the last pass
  available_countries, available_destinations, available_suppliers, available_trunks,
  selected_countries, selected_destinations, selected_suppliers, selected_trunks,
  filtered_df,           \* filtered_df of the last pass, None before it is computed
  filtered_kpi,          \* the "Filtered Results" metrics
  main_table, billing_table, all_rates, supplier_summary

environment == << source, cache >>
session == << data_loaded, df, filter_countries, filter_destinations,
              filter_suppliers, filter_trunks, rate_sort_order, group_view >>
pass == << status, trigger, loader_invoked, widgets, dropped, reset_cleared, kpi,
           available_countries, available_destinations, available_suppliers,
           available_trunks, selected_countries, selected_destinations,
           selected_suppliers, selected_trunks, filtered_df, filtered_kpi,
           main_table, billing_table, all_rates, supplier_summary >>
vars == << environment, session, pass >>

NoKpi == [computed |-> FALSE]

FilterWidgets == { "reset_filters", "countries_select", "destinations_select",
                   "suppliers_select", "trunks_select" }
ListingWidgets == { "rate_sort_order", "group_view" }

\* A pass that st.rerun() ended is followed at once by the next pass.
RerunPending == status \in { "rerun_after_load", "rerun_after_reset" }

\* What the user did to start a pass: nothing (a plain rerun), or a new
\* value for one widget of the page.
NoInput == [widget |-> "none", value |-> {}]

\* The values one interaction can give a multiselect: one option added or
\* removed, or all of them cleared.
Edits(selected, options) ==
  { (selected \ {x}) \cup ({x} \ selected) : x \in options } \cup { {} }

\* st.multiselect: the user's new value when the interaction was on this
\* widget, else the default it is given.
multiselect(key, options, default, ui) ==
  IF ui.widget = key THEN ui.value ELSE default

\* st.selectbox with a key: the user's new value, else the value it kept;
\* options[0] when it was not on the page of the last pass.
selectbox(key, first, kept, ui) ==
  IF ui.widget = key THEN ui.value
  ELSE IF key \in widgets THEN kept ELSE first

\* init_session_state, in a new session.
Init ==
  /\ source \in Sources
  /\ cache = [present |-> FALSE, value |-> None]
  /\ data_loaded = FALSE
  /\ df = None
  /\ filter_countries = {}
  /\ filter_destinations = {}
  /\ filter_suppliers = {}
  /\ filter_trunks = {}
  /\ rate_sort_order = "Lowest to Highest"
  /\ group_view = "Supplier"
  /\ status = "start"
  /\ trigger = "interaction"
  /\ loader_invoked = FALSE
  /\ widgets = {}
  /\ dropped = {}
  /\ reset_cleared = FALSE
  /\ kpi = NoKpi
  /\ available_countries = {} /\ available_destinations = {}
  /\ available_suppliers = {} /\ available_trunks = {}
  /\ selected_countries = {} /\ selected_destinations = {}
  /\ selected_suppliers = {} /\ selected_trunks = {}
  /\ filtered_df = None
  /\ filtered_kpi = NoKpi
  /\ main_table = NotComputed /\ billing_table = NotComputed
  /\ all_rates = NotComputed /\ supplier_summary = NotComputed

\* What a pass leaves of the filter section when it ends before it.
NoFilterSection ==
  /\ available_countries' = {} /\ available_destinations' = {}
  /\ available_suppliers' = {} /\ available_trunks' = {}
  /\ selected_countries' = {} /\ selected_destinations' = {}
  /\ selected_suppliers' = {} /\ selected_trunks' = {}
  /\ filtered_df' = None
  /\ filtered_kpi' = NoKpi

NoViews ==
  /\ main_table' = NotComputed /\ billing_table' = NotComputed
  /\ all_rates' = NotComputed /\ supplier_summary' = NotComputed

\* Widgets that a pass does not put on the page lose their state.
ListingWidgetsDropped ==
  /\ rate_sort_order' = "Lowest to Highest"
  /\ group_view' = "Supplier"

\* What started this pass.
Trigger == IF RerunPending THEN status ELSE "interaction"

\* A loading block that is entered in every pass.
LoadAlways == TRUE

\* if not st.session_state.data_loaded
LoadNeeded == ~data_loaded

\* @st.cache_data: the stored return value when there is one.
CachedLoad == IF cache.present THEN cache.value ELSE load_and_process_data(source)

\* The pass of a session that has no table yet: the lazy loading block.
LoadPass ==
  /\ LoadNeeded
  /\ trigger' = Trigger
  /\ loader_invoked' = TRUE
  /\ cache' = [present |-> TRUE, value |-> CachedLoad]
  /\ IF ~CachedLoad.isNone
     THEN /\ df' = CachedLoad
          /\ data_loaded' = TRUE
          /\ status' = "rerun_after_load"
     ELSE /\ df' = df
          /\ data_loaded' = data_loaded
          /\ status' = "load_failed"
  /\ widgets' = {}
  /\ dropped' = {}
  /\ reset_cleared' = FALSE
  /\ kpi' = NoKpi
  /\ NoFilterSection
  /\ NoViews
  /\ ListingWidgetsDropped
  /\ UNCHANGED << source, filter_countries, filter_destinations,
                  filter_suppliers, filter_trunks >>

\* The KPI cards: nunique of four columns and the mean rate of the table.
KpiCards(d) ==
  [ computed |-> TRUE,
    countries |-> Cardinality(Unique(d, cCountry)),
    destinations |-> Cardinality(Unique(d, cDestination)),
    suppliers |-> Cardinality(Unique(d, cSupplier)),
    trunks |-> Cardinality(Unique(d, cTrunk)),
    avg_rate |-> MeanOf(d.rows, cRate) ]

\* df['Trunk'] and df['Rate (inter)'] raise KeyError when the column is absent.
KpiColumnsPresent(d) == {cTrunk, cRate} \subseteq d.columns

\* The aggregations read "Min Dur" and "Inc Dur" as well.
ViewColumnsPresent(d) == {cMinDur, cIncDur} \subseteq d.columns

\* The "Filtered Results" metrics of a non-empty filtered table.
FilteredKpi(f) ==
  [ computed |-> TRUE,
    min_rate |-> MinOf(f.rows, cRate),
    max_rate |-> MaxOf(f.rows, cRate),
    avg_filtered |-> MeanOf(f.rows, cRate),
    total_routes |-> Len(f.rows) ]

\* A reset that forgets to clear the trunk filter.
ResetPassKeepsTrunks ==
  /\ ~LoadNeeded
  /\ KpiColumnsPresent(df)
  /\ trigger' = Trigger
  /\ loader_invoked' = FALSE
  /\ kpi' = KpiCards(df)
  /\ filter_countries' = {}
  /\ filter_destinations' = {}
  /\ filter_suppliers' = {}
  /\ filter_trunks' = filter_trunks
  /\ status' = "rerun_after_reset"
  /\ widgets' = {"reset_filters"}
  /\ dropped' = {}
  /\ reset_cleared' = (<< filter_countries, filter_destinations,
                          filter_suppliers, filter_trunks >> # << {}, {}, {}, {} >>)
  /\ NoFilterSection
  /\ NoViews
  /\ ListingWidgetsDropped
  /\ UNCHANGED << environment, data_loaded, df >>

\* The pass in which the Reset Filters button returns True.
ResetPass ==
  /\ ~LoadNeeded
  /\ KpiColumnsPresent(df)
  /\ trigger' = Trigger
  /\ loader_invoked' = FALSE
  /\ kpi' = KpiCards(df)
  /\ filter_countries' = {}
  /\ filter_destinations' = {}
  /\ filter_suppliers' = {}
  /\ filter_trunks' = {}
  /\ status' = "rerun_after_reset"
  /\ widgets' = {"reset_filters"}
  /\ dropped' = {}
  /\ reset_cleared' = (<< filter_countries, filter_destinations,
                          filter_suppliers, filter_trunks >> # << {}, {}, {}, {} >>)
  /\ NoFilterSection
  /\ NoViews
  /\ ListingWidgetsDropped
  /\ UNCHANGED << environment, data_loaded, df >>

\* A pass over the stored table that an uncaught KeyError ends at the KPI cards.
KpiErrorPass ==
  /\ ~LoadNeeded
  /\ ~KpiColumnsPresent(df)
  /\ trigger' = Trigger
  /\ loader_invoked' = FALSE
  /\ status' = "exception"
  /\ widgets' = {}
  /\ dropped' = {}
  /\ reset_cleared' = FALSE
  /\ kpi' = NoKpi
  /\ NoFilterSection
  /\ NoViews
  /\ ListingWidgetsDropped
  /\ UNCHANGED << environment, data_loaded, df, filter_countries,
                  filter_destinations, filter_suppliers, filter_trunks >>

\* A pass over the stored table from the KPI cards to the footer.
MainPass(ui) ==
  LET sc == multiselect("countries_select", Unique(df, cCountry), filter_countries, ui)
      ad == AvailableDestinations(df, sc)
      sd == multiselect("destinations_select", ad,
                        DefaultIn(filter_destinations, ad), ui)
      t1 == SupplierFrame(df, sc, sd)
      as == Unique(t1, cSupplier)
      ss == multiselect("suppliers_select", as, DefaultIn(filter_suppliers, as), ui)
      t2 == TrunkFrame(t1, ss)
      at == Unique(t2, cTrunk)
      st == multiselect("trunks_select", at, DefaultIn(filter_trunks, at), ui)
      f  == filter_dataframe(df, sc, sd, ss, st)
      order == selectbox("rate_sort_order", "Lowest to Highest", rate_sort_order, ui)
      group == selectbox("group_view", "Supplier", group_view, ui)
      sort_ascending == (order = "Lowest to Highest")
  IN
  /\ ~LoadNeeded
  /\ KpiColumnsPresent(df)
  /\ trigger' = Trigger
  /\ loader_invoked' = FALSE
  /\ kpi' = KpiCards(df)
  /\ available_countries' = Unique(df, cCountry)
  /\ selected_countries' = sc
  /\ filter_countries' = sc
  /\ available_destinations' = ad
  /\ selected_destinations' = sd
  /\ filter_destinations' = sd
  /\ available_suppliers' = as
  /\ selected_suppliers' = ss
  /\ filter_suppliers' = ss
  /\ available_trunks' = at
  /\ selected_trunks' = st
  /\ filter_trunks' = st
  /\ filtered_df' = f
  /\ dropped' = { k \in {"destinations", "suppliers", "trunks"} :
                    \/ k = "destinations"
                         /\ DefaultIn(filter_destinations, ad) # filter_destinations
                    \/ k = "suppliers"
                         /\ DefaultIn(filter_suppliers, as) # filter_suppliers
                    \/ k = "trunks"
                         /\ DefaultIn(filter_trunks, at) # filter_trunks }
  /\ reset_cleared' = (status = "rerun_after_reset" /\ reset_cleared)
  /\ IF IsEmpty(f)
     THEN \* st.warning, st.stop()
          /\ status' = "no_results"
          /\ widgets' = FilterWidgets
          /\ filtered_kpi' = NoKpi
          /\ NoViews
          /\ ListingWidgetsDropped
     ELSE IF ~ViewColumnsPresent(f)
     THEN \* KeyError in generate_main_table
          /\ status' = "exception"
          /\ widgets' = FilterWidgets
          /\ filtered_kpi' = FilteredKpi(f)
          /\ NoViews
          /\ ListingWidgetsDropped
     ELSE /\ status' = "rendered"
          /\ widgets' = FilterWidgets \cup ListingWidgets
          /\ filtered_kpi' = FilteredKpi(f)
          /\ main_table' = generate_main_table(f)
          /\ billing_table' = generate_billing_table(f)
          /\ rate_sort_order' = order
          /\ group_view' = group
          /\ IF group = "Supplier"
             THEN /\ all_rates' = generate_all_rates_by_destination(f, sort_ascending)
                  /\ supplier_summary' = SupplierSummary(f)
             ELSE /\ all_rates' = all_rates_destination_only(f, sort_ascending)
                  /\ supplier_summary' = NotComputed
  /\ UNCHANGED << environment, data_loaded, df >>

\* One run of the script, started by the interaction ui.
RunScript(ui) ==
  IF LoadNeeded THEN LoadPass
  ELSE IF ~KpiColumnsPresent(df) THEN KpiErrorPass
  ELSE IF ui.widget = "reset_filters" THEN ResetPass
  ELSE MainPass(ui)

\* The script runs again with no new widget value: the rerun that
\* st.rerun() asked for, or the user's "Rerun".
Rerun == RunScript(NoInput)

PressReset ==
  /\ ~RerunPending
  /\ "reset_filters" \in widgets
  /\ RunScript([widget |-> "reset_filters", value |-> TRUE])

ChangeCountries ==
  /\ ~RerunPending
  /\ "countries_select" \in widgets
  /\ \E v \in Edits(selected_countries, available_countries) :
       RunScript([widget |-> "countries_select", value |-> v])

ChangeDestinations ==
  /\ ~RerunPending
  /\ "destinations_select" \in widgets
  /\ \E v \in Edits(selected_destinations, available_destinations) :
       RunScript([widget |-> "destinations_select", value |-> v])

ChangeSuppliers ==
  /\ ~RerunPending
  /\ "suppliers_select" \in widgets
  /\ \E v \in Edits(selected_suppliers, available_suppliers) :
       RunScript([widget |-> "suppliers_select", value |-> v])

ChangeTrunks ==
  /\ ~RerunPending
  /\ "trunks_select" \in widgets
  /\ \E v \in Edits(selected_trunks, available_trunks) :
       RunScript([widget |-> "trunks_select", value |-> v])

ChangeSortOrder ==
  /\ ~RerunPending
  /\ "rate_sort_order" \in widgets
  /\ \E v \in { "Lowest to Highest", "Highest to Lowest" } :
       RunScript([widget |-> "rate_sort_order", value |-> v])

ChangeGroupView ==
  /\ ~RerunPending
  /\ "group_view" \in widgets
  /\ \E v \in { "Supplier", "Destination Only" } :
       RunScript([widget |-> "group_view", value |-> v])

\* After a failed load the file is put right and the cache cleared, so that
\* the next pass of the session reads the new file.
RepairSource ==
  /\ status = "load_failed"
  /\ source' \in Sources \ {source}
  /\ cache' = [present |-> FALSE, value |-> None]
  /\ UNCHANGED << session, pass >>

Next ==
  \/ RepairSource
  \/ Rerun
  \/ PressReset
  \/ ChangeCountries
  \/ ChangeDestinations
  \/ ChangeSuppliers
  \/ ChangeTrunks
  \/ ChangeSortOrder
  \/ ChangeGroupView

Spec == Init /\ [][Next]_vars

-----------------------------------------------------------------------------
(* Properties                                                              *)

\* The last pass ran the filter section (lines 275-376).
FilterSectionRan == "countries_select" \in widgets

AnyViewComputed ==
  \/ main_table.computed \/ billing_table.computed
  \/ all_rates.computed \/ supplier_summary.computed

\* An empty selection places no constraint.
Keeps(selection, x) == selection = {} \/ x \in selection

\* The rows of the stored table that match the selections of the given
\* dimensions.
MatchingRows(countries, destinations, suppliers, trunks) ==
  { i \in DOMAIN df.rows :
      /\ Keeps(countries, df.rows[i][cCountry])
      /\ Keeps(destinations, df.rows[i][cDestination])
      /\ Keeps(suppliers, df.rows[i][cSupplier])
      /\ Keeps(trunks, df.rows[i][cTrunk]) }

ValuesAt(rowsAt, col) == { df.rows[i][col] : i \in rowsAt }

\* C1: at the end of every pass that ran the filter section each effective
\* selection is within the candidate set that pass recomputed, it is what the
\* filter_* session value holds, and a stored value that is no longer a
\* candidate is in neither; a reset pass leaves the four values empty.
SelectionsWithinCandidates ==
  /\ FilterSectionRan =>
       /\ selected_countries \subseteq available_countries
       /\ selected_destinations \subseteq available_destinations
       /\ selected_suppliers \subseteq available_suppliers
       /\ selected_trunks \subseteq available_trunks
       /\ filter_countries = selected_countries
       /\ filter_destinations = selected_destinations
       /\ filter_suppliers = selected_suppliers
       /\ filter_trunks = selected_trunks
       /\ filter_destinations \subseteq
            ValuesAt(MatchingRows(filter_countries, {}, {}, {}), cDestination)
       /\ filter_suppliers \subseteq
            ValuesAt(MatchingRows(filter_countries, filter_destinations, {}, {}),
                     cSupplier)
       /\ filter_trunks \subseteq
            ValuesAt(MatchingRows(filter_countries, filter_destinations,
                                  filter_suppliers, {}), cTrunk)
  /\ status = "rerun_after_reset" =>
       << filter_countries, filter_destinations, filter_suppliers, filter_trunks >>
         = << {}, {}, {}, {} >>

\* A pass that left stale values of all three downstream filters out.
StaleSelectionsDropped ==
  /\ status = "rendered"
  /\ dropped = {"destinations", "suppliers", "trunks"}

\* C2: the candidate sets follow the cascade Country -> Destination ->
\* Supplier -> Trunk: each is the set of distinct values of its column among
\* the rows of the stored table that match the selections of the earlier
\* dimensions only, and with no country selected the destination candidates
\* are all the destinations of the table.
CandidateCascade ==
  FilterSectionRan =>
    /\ available_countries = ValuesAt(DOMAIN df.rows, cCountry)
    /\ available_destinations =
         ValuesAt(MatchingRows(selected_countries, {}, {}, {}), cDestination)
    /\ available_suppliers =
         ValuesAt(MatchingRows(selected_countries, selected_destinations, {}, {}),
                  cSupplier)
    /\ available_trunks =
         ValuesAt(MatchingRows(selected_countries, selected_destinations,
                               selected_suppliers, {}), cTrunk)
    /\ selected_countries = {} =>
         available_destinations = ValuesAt(DOMAIN df.rows, cDestination)

\* A pass in which selections narrowed every later candidate set.
CascadeNarrows ==
  /\ status = "rendered"
  /\ selected_countries # {}
  /\ selected_destinations # {}
  /\ available_destinations # ValuesAt(DOMAIN df.rows, cDestination)
  /\ available_suppliers # ValuesAt(DOMAIN df.rows, cSupplier)
  /\ available_trunks # ValuesAt(DOMAIN df.rows, cTrunk)

\* C3: filter_dataframe returns the rows of the table, in their order, that
\* satisfy every dimension whose selection is non-empty; with four empty
\* selections it returns the table.
FilterDataframeExact ==
  FilterSectionRan =>
    LET kept == MatchingRows(selected_countries, selected_destinations,
                             selected_suppliers, selected_trunks)
    IN /\ ~filtered_df.isNone
       /\ filtered_df.columns = df.columns
       /\ Len(filtered_df.rows) = Cardinality(kept)
       /\ \A k \in DOMAIN filtered_df.rows :
            \E i \in kept :
              /\ Cardinality({ j \in kept : j < i }) = k - 1
              /\ filtered_df.rows[k] = df.rows[i]
       /\ << selected_countries, selected_destinations,
             selected_suppliers, selected_trunks >> = << {}, {}, {}, {} >>
            => filtered_df = df

\* A pass whose trunk selection removed a row of a two-row table.
FilterRemovesRow ==
  /\ status = "rendered"
  /\ selected_trunks # {}
  /\ selected_countries = {}
  /\ Len(filtered_df.rows) = 1
  /\ Len(df.rows) > 1

\* C4: a view is computed only from a non-empty filtered table; a pass whose
\* filtered table is empty ends with the warning, computes no view and no
\* filtered metric, leaves the table and the load flag as they were, and the
\* pass after it is again a pass over the stored table.
NoAggregationOnEmpty ==
  /\ [](/\ AnyViewComputed => (~filtered_df.isNone /\ Len(filtered_df.rows) > 0)
        /\ (FilterSectionRan /\ Len(filtered_df.rows) = 0) =>
             /\ status = "no_results"
             /\ ~AnyViewComputed
             /\ ~filtered_kpi.computed
             /\ data_loaded /\ ~df.isNone)
  /\ [][/\ status' = "no_results" => (df' = df /\ data_loaded' = data_loaded)
        /\ status = "no_results" =>
             /\ df' = df /\ data_loaded'
             /\ ~loader_invoked'
             /\ status' \in {"no_results", "rerun_after_reset"}]_vars

\* A pass that the empty filtered table stopped.
NoResultsReported ==
  /\ status = "no_results"
  /\ ~filtered_df.isNone
  /\ Len(filtered_df.rows) = 0

\* Loading fails when there is no file, or no Name column, or neither a
\* Supplier nor a Customer column (names compared after stripping).
LoadFails(src) ==
  \/ ~src.exists
  \/ cName \notin { Strip(c) : c \in src.columns }
  \/ { cSupplier, cCustomer } \cap { Strip(c) : c \in src.columns } = {}

ResetClearsSelections ==
  /\ status = "rerun_after_reset" =>
       << filter_countries, filter_destinations, filter_suppliers, filter_trunks >>
         = << {}, {}, {}, {} >>
  /\ (trigger = "rerun_after_reset" /\ ~RerunPending) =>
       /\ FilterSectionRan
       /\ << selected_countries, selected_destinations,
             selected_suppliers, selected_trunks >> = << {}, {}, {}, {} >>
       /\ << filter_countries, filter_destinations, filter_suppliers, filter_trunks >>
            = << {}, {}, {}, {} >>
       /\ filtered_df.rows = df.rows

\* The pass after a reset that cleared a selection.
PassAfterReset ==
  /\ trigger = "rerun_after_reset"
  /\ reset_cleared
  /\ status = "rendered"
  /\ Len(df.rows) > 1

\* C7: normalize_supplier_name applied to a normalised supplier name returns
\* it unchanged.
NormalizeSupplierIdempotent ==
  data_loaded =>
    \A i \in DOMAIN df.rows :
      normalize_supplier_name(df.rows[i][cSupplierNormalized])
        = df.rows[i][cSupplierNormalized]

\* The content of a computed Supplier Summary: one row per distinct supplier
\* of the filtered table, Routes the number of its rows.
SummaryMatchesFiltered ==
  LET rows == supplier_summary.rows
      suppliers == { filtered_df.rows[j][cSupplier] : j \in DOMAIN filtered_df.rows }
  IN /\ { rows[i].Supplier : i \in DOMAIN rows } = suppliers
     /\ Len(rows) = Cardinality(suppliers)
     /\ \A i \in DOMAIN rows :
          rows[i].Routes =
            Cardinality({ j \in DOMAIN filtered_df.rows :
                            filtered_df.rows[j][cSupplier] = rows[i].Supplier })

LoadedOnce ==
  [][data_loaded => (data_loaded' /\ df' = df /\ ~loader_invoked')]_vars

\* A pass that an interaction started, over the stored table.
LaterPassOverStoredTable ==
  /\ data_loaded
  /\ trigger = "interaction"
  /\ status = "rendered"
  /\ selected_suppliers # {}

\* C10: over a non-empty table no pass that ran the filter section ends with
\* an empty filtered table.
NoResultsUnreachable ==
  (FilterSectionRan /\ Len(df.rows) > 0) =>
    /\ Len(filtered_df.rows) > 0
    /\ status # "no_results"

\* A pass with a selection in every dimension that keeps part of the table.
AllFourSelected ==
  /\ status = "rendered"
  /\ selected_countries # {} /\ selected_destinations # {}
  /\ selected_suppliers # {} /\ selected_trunks # {}
  /\ Len(filtered_df.rows) < Len(df.rows)

====
